---- MODULE Spec2Model ----
(***************************************************************************)
(* Model of app/puzzles.py and app/main.py, four state machines:           *)
(*   Spec      select_top_per_theme_streaming (flat selection) and         *)
(*             select_top_per_theme_streaming_stratified (stratified       *)
(*             selection with the colour balancer), one action per loop    *)
(*             iteration;                                                  *)
(*   SpecPgn   write_puzzles_to_pgn, one action per puzzle written or      *)
(*             skipped;                                                    *)
(*   SpecBin   _rating_bin_index and the bin count / per-bin quota         *)
(*             arithmetic, applied to inputs drawn from bounded sets;      *)
(*   SpecMain  main of app/main.py, from its imports to its exit code;     *)
(*   SpecNoise _stable_noise and the popularity term of _goodness_key, on  *)
(*             every value of the digest prefix.                           *)
(* Keys are the goodness tuples in exact arithmetic, each component        *)
(* scaled to an integer; heaps are the Python lists that heapq maintains.  *)
(***************************************************************************)
EXTENDS Integers, Sequences, FiniteSets, Bags, TLC

(* ------------------------------------------------------------------ *)
(* Bounds of the model                                                 *)
(* ------------------------------------------------------------------ *)

\* Longest input stream explored.
MaxStream == 5

\* Bytes of the SHA-1 digest kept by the model (the code keeps 4; the
\* model keeps fewer so that scaled keys stay inside TLC's integers).
DigestBytes == 1

(* ------------------------------------------------------------------ *)
(* Optional values                                                     *)
(* ------------------------------------------------------------------ *)

\* Python's None / a present value, as a sequence of length 0 / 1.
None == << >>

Some(x) == << x >>

(* ------------------------------------------------------------------ *)
(* Records of the input stream                                         *)
(* ------------------------------------------------------------------ *)

\* Puzzle(puzzle_id, fen, moves_uci, rating, popularity, num_plays, themes).
\* fen is abstracted to the side to move ("w", "b") or "bad" for a string
\* chess.Board rejects; moves_uci to whether its first move is "legal",
\* "illegal" (push_uci raises) or "none" (empty tuple), and to whether
\* the moves after the first are all legal in turn (rest).
Puzzle(id) ==
    CASE id = "a" -> [rating |-> 9,  popularity |-> 5, num_plays |-> 10,
                      themes |-> <<"mate">>, fen |-> "w", first |-> "legal",
                      rest |-> "legal"]
      [] id = "b" -> [rating |-> 11, popularity |-> 5, num_plays |-> 10,
                      themes |-> <<"mate", "fork">>, fen |-> "w", first |-> "legal",
                      rest |-> "illegal"]
      [] id = "c" -> [rating |-> 13, popularity |-> 5, num_plays |-> 10,
                      themes |-> <<"mate", "mate">>, fen |-> "w", first |-> "illegal",
                      rest |-> "legal"]
      [] id = "d" -> [rating |-> 14, popularity |-> 3, num_plays |-> 100,
                      themes |-> <<"fork", "mate">>, fen |-> "b", first |-> "legal",
                      rest |-> "legal"]
      [] id = "e" -> [rating |-> 15, popularity |-> 5, num_plays |-> 10,
                      themes |-> <<"mate">>, fen |-> "b", first |-> "none",
                      rest |-> "legal"]
      [] id = "f" -> [rating |-> 12, popularity |-> 9, num_plays |-> 1,
                      themes |-> <<"">>, fen |-> "w", first |-> "legal",
                      rest |-> "legal"]
      [] id = "g" -> [rating |-> 12, popularity |-> 5, num_plays |-> 0,
                      themes |-> <<"fork">>, fen |-> "bad", first |-> "legal",
                      rest |-> "legal"]

PuzzleIds == {"a", "b", "c", "d", "e", "f", "g"}

Themes == {"mate", "fork"}

\* int.from_bytes(sha1(salt + puzzle_id).digest()[:DigestBytes]): a fixed
\* function of the id; "b" and "c" collide, as do "a" and "e".
Sha1Prefix(id) ==
    CASE id = "a" -> 200
      [] id = "b" -> 100
      [] id = "c" -> 100
      [] id = "d" -> 250
      [] id = "e" -> 200
      [] id = "f" -> 255
      [] id = "g" -> 0

\* The divisor of _stable_noise: 0xFFFFFFFF for a 4-byte prefix.
DigestMax == 256 ^ DigestBytes - 1

\* Puzzle.primary_themes: the themes that are not the empty string.
primary_themes(id) == SelectSeq(Puzzle(id).themes, LAMBDA t : t # "")

(* ------------------------------------------------------------------ *)
(* Configurations                                                      *)
(* ------------------------------------------------------------------ *)

FlatCfg(n, center, include) ==
    [mode |-> "flat", top_n_per_theme |-> n, min_rating |-> 10, max_rating |-> 14,
     bin_size |-> 5, difficulty_center |-> center, include_themes |-> include,
     present_after |-> FALSE]

StratCfg(n, lo, hi, bin, center, include, after) ==
    [mode |-> "strat", top_n_per_theme |-> n, min_rating |-> lo, max_rating |-> hi,
     bin_size |-> bin, difficulty_center |-> center, include_themes |-> include,
     present_after |-> after]

Configs ==
    { FlatCfg(3, Some(12), None),
      FlatCfg(1, None, Some({"mate"})),
      FlatCfg(0, Some(12), None),
      StratCfg(4, 10, 14, 2, Some(12), None, FALSE),
      StratCfg(2, 10, 14, 3, None, Some({"mate"}), TRUE),
      StratCfg(3, 10, 14, 5, Some(12), None, TRUE),
      StratCfg(0, 10, 14, 2, Some(12), None, FALSE),
      StratCfg(2, 13, 10, 2, Some(12), None, FALSE),
      StratCfg(2, 10, 14, 0, Some(12), None, FALSE),
      StratCfg(2, 10, 14, -2, None, None, FALSE) }

\* The configuration surface of the specification: what must be rejected.
ValidConfig(c) ==
    /\ c.top_n_per_theme >= 1
    /\ c.mode = "strat" => (c.min_rating <= c.max_rating /\ c.bin_size >= 1)

(* ------------------------------------------------------------------ *)
(* Arithmetic                                                          *)
(* ------------------------------------------------------------------ *)

Abs(x) == IF x < 0 THEN -x ELSE x

Max(x, y) == IF x >= y THEN x ELSE y

Min(x, y) == IF x <= y THEN x ELSE y

\* Python's a // b (floor division), b # 0.
PyFloorDiv(a, b) == IF b > 0 THEN a \div b ELSE (-a) \div (-b)

\* math.ceil(a / b), b # 0.
PyCeilDiv(a, b) == -PyFloorDiv(-a, b)

\* math.log10 on the powers of ten the records use.
Log10(n) == CHOOSE k \in 0..3 : 10 ^ k = n

(* ------------------------------------------------------------------ *)
(* ScoreKey                                                            *)
(* ------------------------------------------------------------------ *)

\* Line 115: (val / DigestMax) - 0.5 for the digest prefix val, times
\* 2 * DigestMax.
stable_noise2_of(val) == 2 * val - DigestMax

\* _stable_noise(puzzle_id), times 2 * DigestMax.
stable_noise2(id) == stable_noise2_of(Sha1Prefix(id))

\* Line 220: float(p.popularity) + 10.0 * jitter, times 2 * DigestMax.
popularity_key_of(popularity, jitter2) == 2 * DigestMax * popularity + 10 * jitter2

\* _goodness_key(p, difficulty_center): (popularity_key, difficulty_key,
\* plays_key).  The first two components are scaled by 2 * DigestMax, the
\* third by 4 * DigestMax; tuples are compared component by component, so
\* the order is the order of the code's tuples in exact arithmetic.
goodness_key(id, difficulty_center) ==
    LET p == Puzzle(id)
        jitter2 == stable_noise2(id)
        popularity_key == popularity_key_of(p.popularity, jitter2)
        difficulty_key ==
            IF difficulty_center # None
            THEN -(2 * DigestMax * Abs(p.rating - difficulty_center[1])) + 2 * jitter2
            ELSE -(2 * DigestMax * p.rating) + 2 * jitter2
        plays_key == 4 * DigestMax * Log10(Max(1, p.num_plays)) + jitter2
    IN  << popularity_key, difficulty_key, plays_key >>

\* Python's tuple comparison k1 < k2 on keys.
KeyLess(k1, k2) ==
    \/ k1[1] < k2[1]
    \/ k1[1] = k2[1] /\ k1[2] < k2[2]
    \/ k1[1] = k2[1] /\ k1[2] = k2[2] /\ k1[3] < k2[3]

\* Mutant of KeyGreater: the comparator inverted.
KeyGreater_inverted(k1, k2) == KeyLess(k1, k2)

\* entry[0] > heap[0][0]
KeyGreater(k1, k2) == KeyLess(k2, k1)

\* Python's tuple comparison e1 < e2 on entries (key, tie, puzzle): the tie
\* counter decides equal keys; an entry is never less than itself.
EntryLess(e1, e2) ==
    \/ KeyLess(e1.key, e2.key)
    \/ e1.key = e2.key /\ e1.seq < e2.seq

(* ------------------------------------------------------------------ *)
(* BoundedCategoryHeap: heapq on a Python list (index i is h[i + 1])   *)
(* ------------------------------------------------------------------ *)

RECURSIVE siftdown(_, _, _, _)
\* heapq._siftdown(heap, startpos, pos), newitem = heap[pos].
siftdown(h, startpos, pos, newitem) ==
    IF pos > startpos
    THEN LET parentpos == (pos - 1) \div 2
             parent == h[parentpos + 1]
         IN  IF EntryLess(newitem, parent)
             THEN siftdown([h EXCEPT ![pos + 1] = parent], startpos, parentpos, newitem)
             ELSE [h EXCEPT ![pos + 1] = newitem]
    ELSE [h EXCEPT ![pos + 1] = newitem]

RECURSIVE siftup_loop(_, _, _, _)
\* The while loop of heapq._siftup: bubble the smaller child up to a leaf.
siftup_loop(h, startpos, pos, newitem) ==
    LET endpos == Len(h)
        childpos == 2 * pos + 1
        rightpos == childpos + 1
        c == IF rightpos < endpos /\ ~EntryLess(h[childpos + 1], h[rightpos + 1])
             THEN rightpos ELSE childpos
    IN  IF childpos < endpos
        THEN siftup_loop([h EXCEPT ![pos + 1] = h[c + 1]], startpos, c, newitem)
        ELSE siftdown([h EXCEPT ![pos + 1] = newitem], startpos, pos, newitem)

\* heapq.heappush(heap, item)
heappush(h, item) == siftdown(Append(h, item), 0, Len(h), item)

\* heapq.heapreplace(heap, item), heap not empty.
heapreplace(h, item) == siftup_loop([h EXCEPT ![1] = item], 0, 0, item)

\* Mutant of offer: the capacity test off by one (<= for <).
offer_overfill(h, e, capacity) ==
    IF Len(h) <= capacity
    THEN [ok |-> TRUE, heap |-> heappush(h, e)]
    ELSE IF KeyLess(h[1].key, e.key)
         THEN [ok |-> TRUE, heap |-> heapreplace(h, e)]
         ELSE [ok |-> TRUE, heap |-> h]

\* Mutant of offer: an incoming key equal to the minimum evicts (>= for >).
offer_ties_evict(h, e, capacity) ==
    IF Len(h) < capacity
    THEN [ok |-> TRUE, heap |-> heappush(h, e)]
    ELSE IF Len(h) = 0
         THEN [ok |-> FALSE, heap |-> h]
         ELSE IF ~KeyLess(e.key, h[1].key)
              THEN [ok |-> TRUE, heap |-> heapreplace(h, e)]
              ELSE [ok |-> TRUE, heap |-> h]

\* The body of an offer: "ok" with the new heap, or the IndexError of
\* heap[0] on an empty list.
offer(h, entry, capacity) ==
    IF Len(h) < capacity
    THEN [ok |-> TRUE, heap |-> heappush(h, entry)]
    ELSE IF Len(h) = 0
         THEN [ok |-> FALSE, heap |-> h]
         ELSE IF KeyGreater(entry.key, h[1].key)
              THEN [ok |-> TRUE, heap |-> heapreplace(h, entry)]
              ELSE [ok |-> TRUE, heap |-> h]

RECURSIVE insert_desc(_, _)
\* Insert e after every element whose key is not less than e's.
insert_desc(sorted, e) ==
    IF sorted = << >> THEN << e >>
    ELSE IF KeyLess(Head(sorted).key, e.key)
         THEN << e >> \o sorted
         ELSE << Head(sorted) >> \o insert_desc(Tail(sorted), e)

RECURSIVE sorted_desc_from(_, _, _)
sorted_desc_from(h, i, acc) ==
    IF i > Len(h) THEN acc ELSE sorted_desc_from(h, i + 1, insert_desc(acc, h[i]))

\* sorted(heap, key=lambda e: e[0], reverse=True): descending by key and
\* stable, so entries of equal key keep their order in the list.
sorted_desc(h) == sorted_desc_from(h, 1, << >>)

(* ------------------------------------------------------------------ *)
(* Stratifier                                                          *)
(* ------------------------------------------------------------------ *)

\* Mutant of rating_bin_index: no clamping of ratings outside the range.
rating_bin_index_unclamped(rating, min_rating, max_rating, bin_size) ==
    PyFloorDiv(rating - min_rating, bin_size)

\* Mutant of rating_bin_index: a rating above the range goes one bin
\* past the bin of max_rating.
rating_bin_index_past_end(rating, min_rating, max_rating, bin_size) ==
    IF rating < min_rating THEN 0
    ELSE IF rating > max_rating THEN PyFloorDiv(max_rating - min_rating, bin_size) + 1
    ELSE PyFloorDiv(rating - min_rating, bin_size)

\* _rating_bin_index(rating, min_rating, max_rating, bin_size)
rating_bin_index(rating, min_rating, max_rating, bin_size) ==
    IF rating < min_rating THEN 0
    ELSE IF rating > max_rating THEN PyFloorDiv(max_rating - min_rating, bin_size)
    ELSE PyFloorDiv(rating - min_rating, bin_size)

\* Mutant of NumBins: the range taken as half-open (no + 1).
NumBins_exclusive(c) == Max(1, PyCeilDiv(c.max_rating - c.min_rating, c.bin_size))

\* num_bins = max(1, math.ceil((max_rating - min_rating + 1) / bin_size))
NumBins(c) == Max(1, PyCeilDiv(c.max_rating - c.min_rating + 1, c.bin_size))

\* per_bin_quota = max(1, math.ceil(top_n_per_theme / num_bins))
PerBinQuota(c, nb) == Max(1, PyCeilDiv(c.top_n_per_theme, nb))

\* Mutant of Included: the allow-list ignored.
Included_always(c, theme) == TRUE

\* theme not filtered out by include_set
Included(c, theme) ==
    IF c.include_themes = None THEN TRUE ELSE theme \in c.include_themes[1]

(* ------------------------------------------------------------------ *)
(* Attribute classifier                                                *)
(* ------------------------------------------------------------------ *)

\* starts_white(p) raises when chess.Board rejects the FEN.
starts_white_raises(id) == Puzzle(id).fen = "bad"

\* starts_white(p): the side to move, after the first move when it is
\* to be presented after it, there is one and push_uci accepts it.
starts_white(id, present_after) ==
    LET p == Puzzle(id)
        pushed == present_after /\ p.first = "legal"
    IN  IF pushed THEN p.fen = "b" ELSE p.fen = "w"

(* ------------------------------------------------------------------ *)
(* State                                                               *)
(* ------------------------------------------------------------------ *)

VARIABLES
    cfg,                  \* the arguments of the call
    pc,                   \* "idle", "setup", "pass", "drain", "pick", "done", "failed"
    err,                  \* the exception raised, "" if none
    num_bins,             \* stratified: num_bins
    per_bin_quota,        \* stratified: per_bin_quota
    seen,                 \* ids of the records taken from the stream so far
    cur,                  \* the record whose themes are being looped over
    ti,                   \* position of the theme loop in cur's primary themes
    entry,                \* stratified: the entry built for cur
    bin_index,            \* stratified: the bin computed for cur
    tie_counter,          \* next value of itertools.count()
    theme_order,          \* insertion order of the themes dict
    per_theme_heaps,      \* flat: theme -> heap list
    per_theme_bin_heaps,  \* stratified: theme -> bin -> heap list
    offered,              \* history: theme -> bag of the keys offered to it
    theme_idx,            \* balancer: position in theme_order
    bin_white,            \* balancer: bin -> white-to-move puzzles, best first
    bin_black,            \* balancer: bin -> black-to-move puzzles, best first
    white_count,
    black_count,
    desired_white,
    rr_start,
    count_for_theme,
    selected,             \* the output list of (theme, puzzle)
    bin_order,            \* stratified: theme -> insertion order of its bins dict
    starts_white_calls,   \* history: the (theme, puzzle) of every starts_white call
    w_pc,                 \* writer: "idle", "loop", "returned", "raised"
    w_present_after,      \* writer: present_after_opponent_first_move
    w_consumed,           \* writer: pairs taken from puzzles_with_theme so far
    per_theme_index,      \* writer: theme -> last index handed out
    games,                \* writer: the games written to the file, in order
    games_written,        \* writer: games_written
    bin_args,             \* bin arithmetic: the arguments of the call
    bin_ret,              \* bin arithmetic: what the call returned, None before
    m_pc,                 \* main: "idle", "start", "exited", "raised"
    m_args,               \* main: the parsed command line
    m_err,                \* main: the exception that ended the run, "" if none
    exit_code,            \* main: the value main returned, None before
    dirs,                 \* main: the directories that exist
    noise_args,           \* jitter: the digest prefix and popularity of the call
    noise_ret             \* jitter: what the call returned, None before

passVars == << seen, cur, ti, entry, bin_index, tie_counter, theme_order,
               per_theme_heaps, per_theme_bin_heaps, offered >>

balVars == << theme_idx, bin_white, bin_black, white_count, black_count,
              desired_white, rr_start, count_for_theme >>

drainVars == << bin_order, starts_white_calls >>

selVars == << cfg, pc, err, num_bins, per_bin_quota, passVars, balVars, selected,
              drainVars >>

pgnVars == << w_pc, w_present_after, w_consumed, per_theme_index, games,
              games_written >>

binVars == << bin_args, bin_ret >>

mainVars == << m_pc, m_args, m_err, exit_code, dirs >>

noiseVars == << noise_args, noise_ret >>

vars == << selVars, pgnVars, binVars, mainVars, noiseVars >>

NoEntry == [key |-> << 0, 0, 0 >>, seq |-> -1, p |-> ""]

\* dict.get(key, default)
Get(d, k, default) == IF k \in DOMAIN d THEN d[k] ELSE default

\* d[k] = v on a dict
Put(d, k, v) == [x \in DOMAIN d \cup {k} |-> IF x = k THEN v ELSE d[x]]

\* The selection engine before its first statement, all but cfg and pc.
SelStart ==
    /\ err = ""
    /\ num_bins = 0
    /\ per_bin_quota = 0
    /\ seen = {}
    /\ cur = None
    /\ ti = 0
    /\ entry = NoEntry
    /\ bin_index = 0
    /\ tie_counter = 0
    /\ theme_order = << >>
    /\ per_theme_heaps = << >>
    /\ per_theme_bin_heaps = << >>
    /\ offered = [t \in Themes |-> EmptyBag]
    /\ theme_idx = 0
    /\ bin_white = << >>
    /\ bin_black = << >>
    /\ white_count = 0
    /\ black_count = 0
    /\ desired_white = TRUE
    /\ rr_start = 0
    /\ count_for_theme = 0
    /\ selected = << >>
    /\ bin_order = << >>
    /\ starts_white_calls = << >>

\* The writer not called.
PgnIdle ==
    /\ w_pc = "idle"
    /\ w_present_after = FALSE
    /\ w_consumed = 0
    /\ per_theme_index = << >>
    /\ games = << >>
    /\ games_written = 0

\* The bin arithmetic not called.
BinIdle ==
    /\ bin_args = None
    /\ bin_ret = None

\* The jitter not computed.
NoiseIdle ==
    /\ noise_args = None
    /\ noise_ret = None

\* The command line program not run.
MainIdle ==
    /\ m_pc = "idle"
    /\ m_args = None
    /\ m_err = ""
    /\ exit_code = None
    /\ dirs = {}

Init ==
    /\ cfg \in Configs
    /\ pc = "setup"
    /\ SelStart
    /\ PgnIdle
    /\ BinIdle
    /\ MainIdle
    /\ NoiseIdle

(* ------------------------------------------------------------------ *)
(* Setup: the statements before the pass                               *)
(* ------------------------------------------------------------------ *)

\* Lines 242-244 (flat) and 295-301 (stratified).  Nothing is validated;
\* the only failure is the division by a zero bin_size.
Setup ==
    /\ pc = "setup"
    /\ IF cfg.mode = "strat" /\ cfg.bin_size = 0
       THEN /\ pc' = "failed"
            /\ err' = "ZeroDivisionError"
            /\ UNCHANGED << num_bins, per_bin_quota >>
       ELSE /\ pc' = "pass"
            /\ err' = err
            /\ num_bins' = IF cfg.mode = "strat" THEN NumBins(cfg) ELSE 0
            /\ per_bin_quota' =
                 IF cfg.mode = "strat" THEN PerBinQuota(cfg, NumBins(cfg)) ELSE 0
    /\ UNCHANGED << cfg, passVars, balVars, selected >>
    /\ UNCHANGED << drainVars, pgnVars, binVars, mainVars, noiseVars >>

(* ------------------------------------------------------------------ *)
(* The pass over the stream                                            *)
(* ------------------------------------------------------------------ *)

\* for puzzle in puzzles: the next record of the stream, up to the theme
\* loop.  A record without primary themes is skipped.
NextRecord(id) ==
    /\ pc = "pass"
    /\ cur = None
    /\ id \notin seen
    /\ Cardinality(seen) < MaxStream
    /\ seen' = seen \cup {id}
    /\ IF primary_themes(id) = << >>
       THEN UNCHANGED << cur, ti, entry, bin_index, tie_counter >>
       ELSE /\ cur' = Some(id)
            /\ ti' = 1
            /\ IF cfg.mode = "strat"
               THEN /\ bin_index' = rating_bin_index(Puzzle(id).rating,
                                       cfg.min_rating, cfg.max_rating, cfg.bin_size)
                    /\ entry' = [key |-> goodness_key(id, cfg.difficulty_center),
                                 seq |-> tie_counter, p |-> id]
                    /\ tie_counter' = tie_counter + 1
               ELSE UNCHANGED << entry, bin_index, tie_counter >>
    /\ UNCHANGED << cfg, pc, err, num_bins, per_bin_quota, theme_order,
                    per_theme_heaps, per_theme_bin_heaps, offered, balVars, selected >>
    /\ UNCHANGED << drainVars, pgnVars, binVars, mainVars, noiseVars >>

\* The theme the loop is at, and the loop's advance.
CurTheme == primary_themes(cur[1])[ti]

Advance ==
    IF ti < Len(primary_themes(cur[1]))
    THEN /\ ti' = ti + 1
         /\ cur' = cur
    ELSE /\ ti' = 0
         /\ cur' = None

\* if include_set is not None and theme not in include_set: continue
SkipTheme ==
    /\ pc = "pass"
    /\ cur # None
    /\ ~Included(cfg, CurTheme)
    /\ Advance
    /\ UNCHANGED << cfg, pc, err, num_bins, per_bin_quota, seen, entry, bin_index,
                    tie_counter, theme_order, per_theme_heaps, per_theme_bin_heaps,
                    offered, balVars, selected >>
    /\ UNCHANGED << drainVars, pgnVars, binVars, mainVars, noiseVars >>

\* Flat selection, lines 252-260: one offer to the theme's heap.
OfferFlat ==
    /\ pc = "pass"
    /\ cfg.mode = "flat"
    /\ cur # None
    /\ Included(cfg, CurTheme)
    /\ LET theme == CurTheme
           heap == Get(per_theme_heaps, theme, << >>)
           key == goodness_key(cur[1], cfg.difficulty_center)
           e == [key |-> key, seq |-> tie_counter, p |-> cur[1]]
           r == offer(heap, e, cfg.top_n_per_theme)
       IN  /\ theme_order' = IF theme \in DOMAIN per_theme_heaps
                             THEN theme_order ELSE Append(theme_order, theme)
           /\ tie_counter' = tie_counter + 1
           /\ per_theme_heaps' = Put(per_theme_heaps, theme, r.heap)
           /\ IF r.ok
              THEN /\ offered' = [offered EXCEPT ![theme] = @ (+) SetToBag({key})]
                   /\ Advance
                   /\ UNCHANGED << pc, err >>
              ELSE /\ pc' = "failed"
                   /\ err' = "IndexError"
                   /\ UNCHANGED << offered, cur, ti >>
    /\ UNCHANGED << cfg, num_bins, per_bin_quota, seen, entry, bin_index,
                    per_theme_bin_heaps, balVars, selected >>
    /\ UNCHANGED << drainVars, pgnVars, binVars, mainVars, noiseVars >>

\* Stratified selection, lines 312-318: one offer to the theme's bin heap.
OfferStrat ==
    /\ pc = "pass"
    /\ cfg.mode = "strat"
    /\ cur # None
    /\ Included(cfg, CurTheme)
    /\ LET theme == CurTheme
           bins == Get(per_theme_bin_heaps, theme, << >>)
           heap == Get(bins, bin_index, << >>)
           r == offer(heap, entry, per_bin_quota)
       IN  /\ theme_order' = IF theme \in DOMAIN per_theme_bin_heaps
                             THEN theme_order ELSE Append(theme_order, theme)
           /\ per_theme_bin_heaps' =
                  Put(per_theme_bin_heaps, theme, Put(bins, bin_index, r.heap))
           /\ bin_order' = Put(bin_order, theme,
                  IF bin_index \in DOMAIN bins THEN bin_order[theme]
                  ELSE Append(Get(bin_order, theme, << >>), bin_index))
           /\ offered' = [offered EXCEPT ![theme] = @ (+) SetToBag({entry.key})]
           /\ Advance
    /\ UNCHANGED << cfg, pc, err, num_bins, per_bin_quota, seen, entry, bin_index,
                    tie_counter, per_theme_heaps, balVars, selected >>
    /\ UNCHANGED << starts_white_calls, pgnVars, binVars, mainVars, noiseVars >>

RECURSIVE flatten(_, _, _)
\* Lines 263-267: every theme in dict order, its heap best first.
flatten(order, heaps, i) ==
    IF i > Len(order) THEN << >>
    ELSE LET lst == sorted_desc(heaps[order[i]])
         IN  [k \in 1..Len(lst) |-> << order[i], lst[k].p >>]
             \o flatten(order, heaps, i + 1)

\* The stream ends in flat selection: flatten and return.
FinishFlat ==
    /\ pc = "pass"
    /\ cfg.mode = "flat"
    /\ cur = None
    /\ selected' = flatten(theme_order, per_theme_heaps, 1)
    /\ pc' = "done"
    /\ UNCHANGED << cfg, err, num_bins, per_bin_quota, passVars, balVars >>
    /\ UNCHANGED << drainVars, pgnVars, binVars, mainVars, noiseVars >>

\* The balancer moves to the theme at position i of the dict, or returns.
GotoTheme(i) ==
    /\ theme_idx' = i
    /\ pc' = IF i > Len(theme_order) THEN "done" ELSE "drain"

\* The stream ends in stratified selection: the balancer starts.
EndPass ==
    /\ pc = "pass"
    /\ cfg.mode = "strat"
    /\ cur = None
    /\ GotoTheme(1)
    /\ UNCHANGED << cfg, err, num_bins, per_bin_quota, passVars, bin_white,
                    bin_black, white_count, black_count, desired_white, rr_start,
                    count_for_theme, selected >>
    /\ UNCHANGED << drainVars, pgnVars, binVars, mainVars, noiseVars >>

(* ------------------------------------------------------------------ *)
(* Balancer                                                            *)
(* ------------------------------------------------------------------ *)

\* The theme the balancer is at and its bin heaps.
BalTheme == theme_order[theme_idx]

BalBins == per_theme_bin_heaps[BalTheme]

\* The puzzles of a best-first list that start white (or black).
colour_bucket(lst, white, present_after) ==
    LET kept == SelectSeq(lst, LAMBDA e : starts_white(e.p, present_after) = white)
    IN  [k \in 1..Len(kept) |-> kept[k].p]

RECURSIVE drained(_, _, _)
\* Lines 335-337 and 342-345: the entries of a theme in the order the
\* split visits them, bin after bin in dict order, each bin best first.
drained(order, heaps, i) ==
    IF i > Len(order) THEN << >>
    ELSE sorted_desc(heaps[order[i]]) \o drained(order, heaps, i + 1)

\* Mutant of classified: starts_white memoised per puzzle, so that an
\* entry whose puzzle was classified already costs no call.
classified_once_per_puzzle(lst) ==
    SelectSeq([k \in 1..Len(lst) |-> [k |-> k, p |-> lst[k].p]],
              LAMBDA x : \A j \in 1..(x.k - 1) : lst[j].p # x.p)

\* Line 346: the entries starts_white is called with, one call each, up
\* to and with the first whose FEN chess.Board rejects.
classified(lst) ==
    LET raising == {k \in 1..Len(lst) : starts_white_raises(lst[k].p)}
    IN  IF raising = {} THEN lst
        ELSE SubSeq(lst, 1, CHOOSE k \in raising : \A j \in raising : k <= j)

\* The calls of starts_white the split of the theme makes.
DrainCalls ==
    LET lst == classified(drained(bin_order[BalTheme], BalBins, 1))
    IN  [k \in 1..Len(lst) |-> << BalTheme, lst[k].p >>]

\* Lines 333-353: sort every bin heap best first and split it by colour.
\* starts_white is called once per entry; a rejected FEN raises.
Drain ==
    /\ pc = "drain"
    /\ starts_white_calls' = starts_white_calls \o DrainCalls
    /\ IF \E b \in DOMAIN BalBins : \E k \in 1..Len(BalBins[b]) :
              starts_white_raises(BalBins[b][k].p)
       THEN /\ pc' = "failed"
            /\ err' = "ValueError"
            /\ UNCHANGED << balVars >>
       ELSE /\ pc' = "pick"
            /\ err' = err
            /\ bin_white' = [b \in DOMAIN BalBins |->
                               colour_bucket(sorted_desc(BalBins[b]), TRUE, cfg.present_after)]
            /\ bin_black' = [b \in DOMAIN BalBins |->
                               colour_bucket(sorted_desc(BalBins[b]), FALSE, cfg.present_after)]
            /\ white_count' = 0
            /\ black_count' = 0
            /\ desired_white' = TRUE
            /\ rr_start' = 0
            /\ count_for_theme' = 0
            /\ theme_idx' = theme_idx
    /\ UNCHANGED << cfg, num_bins, per_bin_quota, passVars, selected >>
    /\ UNCHANGED << bin_order, pgnVars, binVars, mainVars, noiseVars >>

RECURSIVE scan_no_wrap(_, _, _, _)
\* Mutant of scan: the cursor stops at the last bin instead of coming
\* round to the bins before start.
scan_no_wrap(lists, start, nb, i) ==
    IF start + i >= nb THEN -1
    ELSE IF Get(lists, start + i, << >>) # << >> THEN start + i
         ELSE scan_no_wrap(lists, start, nb, i + 1)

RECURSIVE scan(_, _, _, _)
\* for i in range(num_bins): the first bin (rr_start + i) % num_bins whose
\* list is not empty, or -1.
scan(lists, start, nb, i) ==
    IF i >= nb THEN -1
    ELSE LET b == (start + i) % nb
         IN  IF Get(lists, b, << >>) # << >> THEN b ELSE scan(lists, start, nb, i + 1)

\* The bin the desired colour is taken from, or -1.
DesiredBin == scan(IF desired_white THEN bin_white ELSE bin_black, rr_start, num_bins, 0)

\* Mutant of OtherBin: no second scan for the other colour.
OtherBin_none == scan(<< >>, rr_start, num_bins, 0)

\* The bin the other colour is taken from, or -1.
OtherBin == scan(IF desired_white THEN bin_black ELSE bin_white, rr_start, num_bins, 0)

\* The colour (white?) and bin of this iteration's pick.
PickWhite == IF DesiredBin # -1 THEN desired_white ELSE ~desired_white

PickBin == IF DesiredBin # -1 THEN DesiredBin ELSE OtherBin

\* One iteration of the while loop that makes progress, lines 356-411.
Pick ==
    /\ pc = "pick"
    /\ count_for_theme < cfg.top_n_per_theme
    /\ PickBin # -1
    /\ LET b == PickBin
           w == PickWhite
           lst == IF w THEN bin_white[b] ELSE bin_black[b]
       IN  /\ selected' = Append(selected, << BalTheme, Head(lst) >>)
           /\ bin_white' = IF w THEN [bin_white EXCEPT ![b] = Tail(lst)] ELSE bin_white
           /\ bin_black' = IF w THEN bin_black ELSE [bin_black EXCEPT ![b] = Tail(lst)]
           /\ white_count' = IF w THEN white_count + 1 ELSE white_count
           /\ black_count' = IF w THEN black_count ELSE black_count + 1
           /\ count_for_theme' = count_for_theme + 1
           /\ rr_start' = (b + 1) % num_bins
           /\ desired_white' = (white_count' <= black_count')
    /\ UNCHANGED << cfg, pc, err, num_bins, per_bin_quota, passVars, theme_idx >>
    /\ UNCHANGED << drainVars, pgnVars, binVars, mainVars, noiseVars >>

\* The while loop ends (quota reached, or no progress: break) and the for
\* loop moves to the next theme, or the function returns.
FinishTheme ==
    /\ pc = "pick"
    /\ count_for_theme >= cfg.top_n_per_theme \/ PickBin = -1
    /\ GotoTheme(theme_idx + 1)
    /\ UNCHANGED << cfg, err, num_bins, per_bin_quota, passVars, bin_white,
                    bin_black, white_count, black_count, desired_white, rr_start,
                    count_for_theme, selected >>
    /\ UNCHANGED << drainVars, pgnVars, binVars, mainVars, noiseVars >>

(* ------------------------------------------------------------------ *)
(* write_puzzles_to_pgn                                                *)
(* ------------------------------------------------------------------ *)

\* Longest puzzles_with_theme explored.
MaxGames == 3

\* chess.Board(fen=puzzle.fen): the position of the CSV row, as the row it
\* comes from, the number of moves applied to it and the side to move.
Board(id) == [of |-> id, ply |-> 0, turn |-> Puzzle(id).fen]

\* board.push_uci(move) that keeps the side to move.
push_uci_same_side(board) == [board EXCEPT !.ply = @ + 1]

\* board.push_uci(move) on a legal move: one more move applied, the other
\* side to move.
push_uci(board) ==
    [board EXCEPT !.ply = @ + 1, !.turn = IF @ = "w" THEN "b" ELSE "w"]

\* Lines 467-472: the White and Black headers from board.turn.
side_headers(turn) ==
    IF turn = "w" THEN [White |-> "You", Black |-> "Opponent"]
    ELSE [White |-> "Opponent", Black |-> "You"]

\* Lines 484-489: every move of moves_sequence is legal in turn.
moves_legal(id, first_pushed) ==
    IF first_pushed THEN Puzzle(id).rest = "legal"
    ELSE Puzzle(id).first = "legal" /\ Puzzle(id).rest = "legal"

\* One iteration of the loop of lines 435-498 on the pair (theme, puzzle).
WriteIteration(theme, id) ==
    /\ w_pc = "loop"
    /\ w_consumed < MaxGames
    /\ w_consumed' = w_consumed + 1
    /\ LET p == Puzzle(id)
           board == IF w_present_after THEN push_uci(Board(id)) ELSE Board(id)
           index == Get(per_theme_index, theme, 0) + 1
           game == [Event |-> theme, PuzzleId |-> id, Round |-> index,
                    FEN |-> board, White |-> side_headers(board.turn).White,
                    Black |-> side_headers(board.turn).Black]
       IN  IF p.first = "none"
           THEN \* line 436: no moves, continue
                UNCHANGED << w_pc, per_theme_index, games, games_written >>
           ELSE IF p.fen = "bad"
           THEN \* line 440: chess.Board raises, nothing catches it
                /\ w_pc' = "raised"
                /\ UNCHANGED << per_theme_index, games, games_written >>
           ELSE IF w_present_after /\ p.first = "illegal"
           THEN \* lines 446-448: push_uci raised, continue
                UNCHANGED << w_pc, per_theme_index, games, games_written >>
           ELSE \* lines 479-480, then the move loop and the export
                /\ per_theme_index' = Put(per_theme_index, theme, index)
                /\ IF moves_legal(id, w_present_after)
                   THEN /\ games' = Append(games, game)
                        /\ games_written' = games_written + 1
                   ELSE UNCHANGED << games, games_written >>
                /\ w_pc' = w_pc
    /\ UNCHANGED << w_present_after, selVars, binVars, mainVars, noiseVars >>

\* Line 500: puzzles_with_theme is exhausted, the count is returned.
WriteReturn ==
    /\ w_pc = "loop"
    /\ w_pc' = "returned"
    /\ UNCHANGED << w_present_after, w_consumed, per_theme_index, games,
                    games_written, selVars, binVars, mainVars, noiseVars >>

(* ------------------------------------------------------------------ *)
(* Specification                                                       *)
(* ------------------------------------------------------------------ *)

Next ==
    \/ Setup
    \/ \E id \in PuzzleIds : NextRecord(id)
    \/ SkipTheme
    \/ OfferFlat
    \/ OfferStrat
    \/ FinishFlat
    \/ EndPass
    \/ Drain
    \/ Pick
    \/ FinishTheme

Spec == Init /\ [][Next]_vars

\* write_puzzles_to_pgn called on any pairs, after lines 432-434.
InitPgn ==
    /\ cfg = None
    /\ pc = "idle"
    /\ SelStart
    /\ BinIdle
    /\ MainIdle
    /\ NoiseIdle
    /\ w_pc = "loop"
    /\ w_present_after \in BOOLEAN
    /\ w_consumed = 0
    /\ per_theme_index = << >>
    /\ games = << >>
    /\ games_written = 0

NextPgn ==
    \/ \E theme \in Themes, id \in PuzzleIds : WriteIteration(theme, id)
    \/ WriteReturn

SpecPgn == InitPgn /\ [][NextPgn]_vars

(* ------------------------------------------------------------------ *)
(* The bin arithmetic on its own                                       *)
(* ------------------------------------------------------------------ *)

\* Largest min_rating, max_rating and bin_size explored.
MaxBinArg == 5

\* The range, bin width and quota of the worked example: ratings 600 to
\* 800 in bins of 5, 4 per theme.
Scenario(rating) ==
    [rating |-> rating, min_rating |-> 600, max_rating |-> 800, bin_size |-> 5,
     top_n_per_theme |-> 4]

\* Arguments of _rating_bin_index and of lines 296-297: every small
\* range (min > max included), every bin width but 0 (negative ones
\* included), ratings on both sides of the range; and the worked example.
BinInputs ==
    [rating : -2..(MaxBinArg + 2), min_rating : 0..MaxBinArg,
     max_rating : 0..MaxBinArg, bin_size : (-2..MaxBinArg) \ {0},
     top_n_per_theme : {1, 4}]
    \cup {Scenario(r) : r \in {599, 600, 604, 605, 799, 800, 801}}

\* One evaluation of lines 296-297 and of _rating_bin_index.
BinCall ==
    /\ bin_args # None
    /\ bin_ret = None
    /\ LET a == bin_args[1]
           nb == NumBins(a)
       IN  bin_ret' = Some([num_bins |-> nb,
                            per_bin_quota |-> PerBinQuota(a, nb),
                            bin_index |-> rating_bin_index(a.rating, a.min_rating,
                                              a.max_rating, a.bin_size)])
    /\ UNCHANGED << bin_args, selVars, pgnVars, mainVars, noiseVars >>

InitBin ==
    /\ cfg = None
    /\ pc = "idle"
    /\ SelStart
    /\ PgnIdle
    /\ MainIdle
    /\ NoiseIdle
    /\ bin_args \in {Some(a) : a \in BinInputs}
    /\ bin_ret = None

NextBin == BinCall

SpecBin == InitBin /\ [][NextBin]_vars

(* ------------------------------------------------------------------ *)
(* app/main.py: the command line program                               *)
(* ------------------------------------------------------------------ *)

\* main.py line 8: the names imported from app.puzzles.
MainImports ==
    {"build_puzzles_pipeline", "write_puzzles_per_theme_to_directory",
     "process_all_puzzles_by_theme_streaming"}

\* The names app/puzzles.py defines at module level.
PuzzlesNames ==
    {"Puzzle", "GenerationConfig", "_open_text_stream", "CSV_HEADERS",
     "_humanize_theme", "_stable_noise", "iter_puzzles_csv",
     "filter_puzzles_by_rating", "group_puzzles_by_theme", "sort_puzzles",
     "_goodness_key", "select_top_per_theme_streaming", "_rating_bin_index",
     "select_top_per_theme_streaming_stratified", "write_puzzles_to_pgn",
     "write_puzzles_per_theme_to_directory", "summarize_selected",
     "build_puzzles_pipeline", "generate_from_config"}

\* The parameters of build_puzzles_pipeline (puzzles.py lines 650-663).
PipelineParams ==
    {"csv_path", "rating_min", "rating_max", "per_theme", "difficulty_center",
     "include_themes", "out_pgn_path", "present_after_opponent_first_move",
     "limit_total", "force_color", "opening_color_tag", "event_prefix"}

\* The keyword arguments main passes to it (main.py lines 189-204).
PipelineKwargs ==
    {"csv_path", "rating_min", "rating_max", "per_theme", "difficulty_center",
     "include_themes", "out_pgn_path", "present_after_opponent_first_move",
     "limit_total", "force_color", "opening_color_tag", "event_prefix",
     "min_popularity", "min_plays"}

\* The parameters of write_puzzles_per_theme_to_directory (lines 503-509).
PerThemeParams ==
    {"puzzles_with_theme", "output_dir", "present_after_opponent_first_move",
     "opening_color_tag", "event_prefix"}

\* The keyword arguments main passes to it (main.py lines 272-279).
PerThemeKwargs ==
    {"puzzles_with_theme", "output_dir", "present_after_opponent_first_move",
     "opening_color_tag", "event_prefix", "include_difficulty_in_event"}

\* Command lines of selective runs (no --stream-all) on a readable CSV of
\* well-formed rows.
Argv ==
    [min_rating : {200, 500, 600}, max_rating : {700, 800, 1000},
     per_theme : {1, 2, 50}, out_dir : {None, Some("themes_pgn_500-1000_custom")},
     event_prefix : {None, Some("Test")}]

\* main.py lines 270-271: the directory of the per-theme files, the
\* derived name standing for its path under the current directory.
OutDir(args) ==
    IF args.out_dir # None THEN << args.out_dir[1] >>
    ELSE << "themes_pgn_", args.min_rating, "-", args.max_rating >>

\* One run of the program: the import of app.main, then main(argv).  A
\* name missing from app.puzzles ends it at the import; a keyword argument
\* build_puzzles_pipeline does not take raises TypeError out of main; the
\* call of write_puzzles_per_theme_to_directory is inside a try whose
\* handler prints the error, and only the callee creates the directory
\* (os.makedirs, puzzles.py line 515).
RunMain ==
    /\ m_pc = "start"
    /\ IF ~(MainImports \subseteq PuzzlesNames)
       THEN /\ m_pc' = "raised"
            /\ m_err' = "ImportError"
            /\ UNCHANGED << exit_code, dirs >>
       ELSE IF ~(PipelineKwargs \subseteq PipelineParams)
       THEN /\ m_pc' = "raised"
            /\ m_err' = "TypeError"
            /\ UNCHANGED << exit_code, dirs >>
       ELSE /\ m_pc' = "exited"
            /\ m_err' = m_err
            /\ exit_code' = Some(0)
            /\ dirs' = IF PerThemeKwargs \subseteq PerThemeParams
                       THEN dirs \cup {OutDir(m_args)}
                       ELSE dirs
    /\ UNCHANGED << m_args, selVars, pgnVars, binVars, noiseVars >>

InitMain ==
    /\ cfg = None
    /\ pc = "idle"
    /\ SelStart
    /\ PgnIdle
    /\ BinIdle
    /\ NoiseIdle
    /\ m_pc = "start"
    /\ m_args \in Argv
    /\ m_err = ""
    /\ exit_code = None
    /\ dirs = {}

NextMain == RunMain

SpecMain == InitMain /\ [][NextMain]_vars

(* ------------------------------------------------------------------ *)
(* The jitter and the popularity term, on any digest                   *)
(* ------------------------------------------------------------------ *)

\* The popularities the popularity term is computed for.
NoisePopularities == {-100, 0, 5, 100}

\* Every value of the digest prefix, with a popularity.
NoiseInputs == [val : 0..DigestMax, popularity : NoisePopularities]

\* Lines 113-115 and 219-220: the jitter of a digest prefix and the
\* popularity term built on it.
NoiseCall ==
    /\ noise_args # None
    /\ noise_ret = None
    /\ LET a == noise_args[1]
           jitter2 == stable_noise2_of(a.val)
       IN  noise_ret' = Some([jitter2 |-> jitter2,
                              popularity_key |-> popularity_key_of(a.popularity, jitter2)])
    /\ UNCHANGED << noise_args, selVars, pgnVars, binVars, mainVars >>

InitNoise ==
    /\ cfg = None
    /\ pc = "idle"
    /\ SelStart
    /\ PgnIdle
    /\ BinIdle
    /\ MainIdle
    /\ noise_args \in {Some(a) : a \in NoiseInputs}
    /\ noise_ret = None

NextNoise == NoiseCall

SpecNoise == InitNoise /\ [][NextNoise]_vars

(* ------------------------------------------------------------------ *)
(* Derived quantities used by the properties                           *)
(* ------------------------------------------------------------------ *)

N == cfg.top_n_per_theme

Stratified == cfg.mode = "strat"

Flat == cfg.mode = "flat"

\* The positions of the output that belong to a theme.
OutPositions(t) == {i \in 1..Len(selected) : selected[i][1] = t}

OutCount(t) == Cardinality(OutPositions(t))

\* The bag of the keys a heap list holds.
KeyBag(h) ==
    LET keys == {h[i].key : i \in 1..Len(h)}
    IN  [k \in keys |-> Cardinality({i \in 1..Len(h) : h[i].key = k})]

\* The bag of the keys of a theme's output.
OutKeyBag(t) ==
    LET keys == {goodness_key(selected[i][2], cfg.difficulty_center) : i \in OutPositions(t)}
    IN  [k \in keys |-> Cardinality({i \in OutPositions(t) :
                           goodness_key(selected[i][2], cfg.difficulty_center) = k})]

\* The themes that have bin heaps, and the bins of one.
StratThemes == DOMAIN per_theme_bin_heaps

BinsOf(t) == DOMAIN per_theme_bin_heaps[t]

\* The (bin, position) pairs of the entries a theme's bin heaps hold.
HeldSlots(t) ==
    {<< b, k >> \in BinsOf(t) \X (1..(MaxStream * 2)) : k <= Len(per_theme_bin_heaps[t][b])}

Held(t) == Cardinality(HeldSlots(t))

\* The entries held that start white (or black).
HeldColour(t, white) ==
    Cardinality({s \in HeldSlots(t) :
        starts_white(per_theme_bin_heaps[t][s[1]][s[2]].p, cfg.present_after) = white})

\* The output positions of a theme whose puzzle starts white (or black).
OutColour(t, white) ==
    Cardinality({i \in OutPositions(t) :
        starts_white(selected[i][2], cfg.present_after) = white})

\* The bin of a puzzle under the configuration.
BinOf(id) ==
    rating_bin_index(Puzzle(id).rating, cfg.min_rating, cfg.max_rating, cfg.bin_size)

\* A bin of a theme has a record in the theme's output.
Covered(t, b) == \E i \in OutPositions(t) : BinOf(selected[i][2]) = b

(* ------------------------------------------------------------------ *)
(* C1                                                                  *)
(* ------------------------------------------------------------------ *)

\* C1: with a quota N >= 1, a category's output never holds more than N
\* records (flat and stratified), and in stratified selection every
\* (category, bin) heap holds at most ceil(N / numBins) entries after every
\* offer of the pass.
C1_Capacity ==
    (N >= 1 /\ pc # "setup") =>
        /\ \A t \in Themes : OutCount(t) <= N
        /\ Stratified =>
             \A t \in StratThemes : \A b \in BinsOf(t) :
                 Len(per_theme_bin_heaps[t][b]) <= PyCeilDiv(N, num_bins)

\* A stratified run returned N records for a category that was offered more
\* than N, with one of its bin heaps full.
C1_Witness ==
    /\ pc = "done" /\ Stratified /\ N >= 1
    /\ \E t \in StratThemes :
         /\ OutCount(t) = N
         /\ BagCardinality(offered[t]) > N
         /\ \E b \in BinsOf(t) : Len(per_theme_bin_heaps[t][b]) = PyCeilDiv(N, num_bins)

(* ------------------------------------------------------------------ *)
(* C2                                                                  *)
(* ------------------------------------------------------------------ *)

\* Bag h is the Min(n, size of o) greatest keys of bag o: a sub-bag of
\* that size with no key left out greater than a key kept.
IsTopOf(h, o, n) ==
    /\ h \sqsubseteq o
    /\ BagCardinality(h) = Min(n, BagCardinality(o))
    /\ \A k \in BagToSet(o (-) h) : \A x \in BagToSet(h) : ~KeyLess(x, k)

\* C2: in flat selection with N >= 1, after every offer the keys a
\* category's heap holds are the min(N, n) greatest of the n keys offered
\* to the category, and the category's output is made of exactly these.
C2_FlatTopK ==
    (Flat /\ N >= 1) =>
        \A t \in DOMAIN per_theme_heaps :
            /\ IsTopOf(KeyBag(per_theme_heaps[t]), offered[t], N)
            /\ pc = "done" => OutKeyBag(t) = KeyBag(per_theme_heaps[t])

\* A flat run has returned, for a category offered more than N keys, an
\* output that leaves out a key and that replaced a key held earlier (the
\* smallest key of the output was offered after a smaller one).
C2_Witness ==
    /\ pc = "done" /\ Flat /\ N >= 1
    /\ \E t \in DOMAIN per_theme_heaps :
         /\ BagCardinality(offered[t]) > N
         /\ OutCount(t) = N
         /\ \E e \in {per_theme_heaps[t][i] : i \in 1..Len(per_theme_heaps[t])} :
              e.seq >= N

(* ------------------------------------------------------------------ *)
(* C3                                                                  *)
(* ------------------------------------------------------------------ *)

\* C3: in stratified selection with a valid configuration the balancer
\* leaves a category only when N records were emitted for it or no bin
\* has a candidate left, so the output of every category the balancer has
\* finished has min(N, entries held by the category's bin heaps) records.
\* (Right after the balancer leaves a category its counters and lists are
\* still those of that category.)
C3_OutputLength ==
    (Stratified /\ ValidConfig(cfg) /\ pc \in {"drain", "pick", "done"}) =>
        /\ (pc # "pick" /\ theme_idx > 1) =>
               \/ count_for_theme >= N
               \/ \A b \in DOMAIN bin_white : bin_white[b] = << >> /\ bin_black[b] = << >>
        /\ \A i \in 1..Len(theme_order) :
               (i < theme_idx) =>
                   OutCount(theme_order[i]) = Min(N, Held(theme_order[i]))

\* The balancer finished one category short of N with every bin emptied
\* and another at N with candidates left over.
C3_Witness ==
    /\ pc = "done" /\ Stratified /\ ValidConfig(cfg)
    /\ \E t \in StratThemes : Held(t) < N /\ OutCount(t) = Held(t) /\ Held(t) > 0
    /\ \E t \in StratThemes : Held(t) > N /\ OutCount(t) = N

(* ------------------------------------------------------------------ *)
(* C4                                                                  *)
(* ------------------------------------------------------------------ *)

\* A category holds enough candidates of both colours to alternate.
BothColoursSufficient(t) ==
    /\ HeldColour(t, TRUE) >= PyCeilDiv(N, 2)
    /\ HeldColour(t, FALSE) >= PyCeilDiv(N, 2)

\* |countWhite - countBlack| <= 1 in the output of a category.
Balanced(t) == Abs(OutColour(t, TRUE) - OutColour(t, FALSE)) <= 1

\* C4: in stratified selection, the output of every category whose bin
\* heaps hold at least ceil(N/2) candidates of each colour has
\* |countWhite - countBlack| <= 1.
C4_BalanceBound ==
    (Stratified /\ pc = "done") =>
        \A t \in StratThemes : BothColoursSufficient(t) => Balanced(t)

\* The same bound for the configurations the specification accepts.
C4_BalanceBoundValid ==
    (Stratified /\ pc = "done" /\ ValidConfig(cfg)) =>
        \A t \in StratThemes : BothColoursSufficient(t) => Balanced(t)

\* A valid run returned N >= 3 records of a category that held enough of
\* both colours and more candidates than N.
C4_ValidWitness ==
    /\ Stratified /\ pc = "done" /\ ValidConfig(cfg) /\ N >= 3
    /\ \E t \in StratThemes :
         BothColoursSufficient(t) /\ Held(t) > N /\ OutCount(t) = N

(* ------------------------------------------------------------------ *)
(* C5                                                                  *)
(* ------------------------------------------------------------------ *)

\* The bins of a category the balancer scans.
ScannedBins(t) == BinsOf(t) \cap (0..(num_bins - 1))

C7_InvalidConfigFailsAtSetup ==
    ~ValidConfig(cfg) => (seen = {} /\ pc # "done")

(* ------------------------------------------------------------------ *)
(* C8                                                                  *)
(* ------------------------------------------------------------------ *)

\* C8: with a valid configuration, selection never raises, whatever the
\* records (malformed position, inapplicable first move).
C8_NoRaiseOnData == ValidConfig(cfg) => pc # "failed"

(* ------------------------------------------------------------------ *)
(* C9                                                                  *)
(* ------------------------------------------------------------------ *)

\* The number of entries held over all heaps of the stratified pass.
RECURSIVE TotalHeld(_)
TotalHeld(ts) ==
    IF ts = {} THEN 0
    ELSE LET t == CHOOSE x \in ts : TRUE IN Held(t) + TotalHeld(ts \ {t})

\* C9: at every point of a stratified pass with a valid configuration,
\* every bin key of a category lies in 0..numBins-1 (so a category has at
\* most numBins heaps) and the heaps hold at most
\* (categories seen) x numBins x perBinQuota entries in total.
C9_MemoryBound ==
    (Stratified /\ ValidConfig(cfg) /\ pc # "setup") =>
        /\ \A t \in StratThemes :
             /\ BinsOf(t) \subseteq 0..(num_bins - 1)
             /\ Cardinality(BinsOf(t)) <= num_bins
        /\ TotalHeld(StratThemes) <= Cardinality(StratThemes) * num_bins * per_bin_quota

\* A valid stratified pass holds a record rated under the range in bin 0
\* and one rated over it in the last bin, and has turned an offer away.
C9_Witness ==
    /\ Stratified /\ ValidConfig(cfg) /\ pc = "pass" /\ cur = None
    /\ \E t \in StratThemes :
         /\ \E s \in HeldSlots(t) :
              s[1] = 0 /\ per_theme_bin_heaps[t][s[1]][s[2]].p = "a"
         /\ \E s \in HeldSlots(t) :
              s[1] = num_bins - 1 /\ per_theme_bin_heaps[t][s[1]][s[2]].p = "e"
         /\ BagCardinality(offered[t]) > Held(t)

(* ------------------------------------------------------------------ *)
(* C10                                                                 *)
(* ------------------------------------------------------------------ *)

\* The themes of a record as a set.
ThemeSet(id) == {Puzzle(id).themes[i] : i \in 1..Len(Puzzle(id).themes)}

\* The themes for which a heap exists.
HeapThemes == DOMAIN per_theme_heaps \cup DOMAIN per_theme_bin_heaps

\* C10: every (category, record) pair of the output has the category among
\* the record's themes and, when an allow-list is given, in the allow-list;
\* a record without themes is in no output and creates no heap (heaps exist
\* only for allowed themes of records taken from the stream).
C10_OutputMembership ==
    /\ \A i \in 1..Len(selected) :
         /\ selected[i][1] # ""
         /\ selected[i][1] \in ThemeSet(selected[i][2])
         /\ cfg.include_themes # None => selected[i][1] \in cfg.include_themes[1]
         /\ primary_themes(selected[i][2]) # << >>
    /\ \A t \in HeapThemes :
         /\ t # ""
         /\ \E id \in seen : t \in ThemeSet(id)
         /\ cfg.include_themes # None => t \in cfg.include_themes[1]

\* A run with an allow-list returned after it took a record without
\* primary themes and a record with a theme outside the allow-list.
C10_Witness ==
    /\ pc = "done" /\ cfg.include_themes # None
    /\ "f" \in seen /\ "d" \in seen
    /\ selected # << >>
    /\ HeapThemes = {"mate"}

(* ------------------------------------------------------------------ *)
(* C11: Round numbers of the written games                             *)
(* ------------------------------------------------------------------ *)

\* The games written for a theme, in the order of the file.
GamesOf(t) == SelectSeq(games, LAMBDA g : g.Event = t)

\* C11: for every theme, the Round numbers of the games written for it
\* are 1, 2, ..., k in the order of the file, k being the number of games
\* written for the theme, whatever input pairs were skipped.
C11_RoundsGapless ==
    \A t \in Themes : \A i \in 1..Len(GamesOf(t)) : GamesOf(t)[i].Round = i

(* ------------------------------------------------------------------ *)
(* C12: FEN and side headers of the written games                      *)
(* ------------------------------------------------------------------ *)

Opposite(turn) == IF turn = "w" THEN "b" ELSE "w"

\* C12: every written game carries as FEN the position of its CSV row,
\* with the first move applied and the other side to move when the game
\* is presented after the opponent's first move, untouched otherwise;
\* the header of the side to move in that FEN is "You" and the other
\* header is "Opponent".
C12_HeadersMatchSideToMove ==
    \A i \in 1..Len(games) :
        LET g == games[i]
            csv == Puzzle(g.PuzzleId).fen
        IN  /\ g.FEN.of = g.PuzzleId
            /\ g.FEN.ply = IF w_present_after THEN 1 ELSE 0
            /\ g.FEN.turn = IF w_present_after THEN Opposite(csv) ELSE csv
            /\ IF g.FEN.turn = "w"
               THEN g.White = "You" /\ g.Black = "Opponent"
               ELSE g.Black = "You" /\ g.White = "Opponent"

\* A file presented after the first move holding a game of a row with
\* White to move (the solver is Black) and one of a row with Black to move.
C12_Witness ==
    /\ w_present_after
    /\ \E i, j \in 1..Len(games) :
          /\ Puzzle(games[i].PuzzleId).fen = "w" /\ games[i].Black = "You"
          /\ Puzzle(games[j].PuzzleId).fen = "b" /\ games[j].White = "You"

(* ------------------------------------------------------------------ *)
(* C13: a selective run of main                                        *)
(* ------------------------------------------------------------------ *)

\* C13: a selective run of main on a readable CSV returns exit code 0 and
\* leaves the per-theme output directory existing, the derived
\* themes_pgn_<min>-<max> or the one given with --out-dir.
C13_MainSucceeds ==
    m_pc \notin {"idle", "start"} =>
        /\ m_pc = "exited"
        /\ exit_code = Some(0)
        /\ OutDir(m_args) \in dirs

(* ------------------------------------------------------------------ *)
(* C14: the effect of one offer on its heap                            *)
(* ------------------------------------------------------------------ *)

\* The bag of the entries of a heap list.
EntryBag(h) ==
    LET es == {h[i] : i \in 1..Len(h)}
    IN  [e \in es |-> Cardinality({i \in 1..Len(h) : h[i] = e})]

\* An offer is about to run: the theme loop stands on an included theme.
AtOffer == pc = "pass" /\ cur # None /\ Included(cfg, CurTheme)

\* The heap the offer goes to, its capacity and the incoming entry.
OfferHeap ==
    IF cfg.mode = "flat" THEN Get(per_theme_heaps, CurTheme, << >>)
    ELSE Get(Get(per_theme_bin_heaps, CurTheme, << >>), bin_index, << >>)

OfferCapacity == IF cfg.mode = "flat" THEN cfg.top_n_per_theme ELSE per_bin_quota

OfferEntry ==
    IF cfg.mode = "flat"
    THEN [key |-> goodness_key(cur[1], cfg.difficulty_center),
          seq |-> tie_counter, p |-> cur[1]]
    ELSE entry

\* i is a position of minimum key in h.
IsMinKeyAt(h, i) == \A j \in 1..Len(h) : ~KeyLess(h[j].key, h[i].key)

\* What the claim allows an offer of e to turn the heap hb into.
OfferEffect(hb, ha, e, capacity) ==
    IF Len(hb) < capacity
    THEN EntryBag(ha) = EntryBag(hb) (+) SetToBag({e})
    ELSE IF \E i \in 1..Len(hb) : IsMinKeyAt(hb, i) /\ KeyGreater(e.key, hb[i].key)
         THEN \E i \in 1..Len(hb) :
                 /\ IsMinKeyAt(hb, i)
                 /\ EntryBag(ha) = (EntryBag(hb) (-) SetToBag({hb[i]})) (+) SetToBag({e})
         ELSE ha = hb

\* C14: an offer to a heap below capacity adds the entry and removes
\* nothing; an offer to a full heap whose minimum key is strictly below
\* the incoming key removes exactly one entry of minimum key and adds the
\* incoming one; any other offer to a full heap leaves the heap as it was.
C14_OfferEffect ==
    [][AtOffer =>
         IF cfg.mode = "flat"
         THEN OfferEffect(OfferHeap, per_theme_heaps'[CurTheme], OfferEntry,
                          OfferCapacity)
         ELSE OfferEffect(OfferHeap, per_theme_bin_heaps'[CurTheme][bin_index],
                          OfferEntry, OfferCapacity)]_vars

\* A heap of capacity 1 that has replaced its entry by a later one of
\* greater key and has then turned down a still later offer.
C14_Witness ==
    /\ cfg = FlatCfg(1, None, Some({"mate"}))
    /\ "mate" \in DOMAIN per_theme_heaps
    /\ per_theme_heaps["mate"][1].seq >= 1
    /\ tie_counter >= per_theme_heaps["mate"][1].seq + 2

(* ------------------------------------------------------------------ *)
(* C15: which of two entries of equal key is evicted                   *)
(* ------------------------------------------------------------------ *)

\* The heap of the offer after the step.
OfferHeapAfter ==
    IF cfg.mode = "flat" THEN per_theme_heaps'[CurTheme]
    ELSE per_theme_bin_heaps'[CurTheme][bin_index]

\* The entries an offer step removes from its heap.
EvictedByOffer ==
    {x \in DOMAIN EntryBag(OfferHeap) :
        CopiesIn(x, EntryBag(OfferHeap)) > CopiesIn(x, EntryBag(OfferHeapAfter))}

\* C15: no offer evicts an entry from a heap that goes on holding an
\* entry of the same key with a later sequence number: among entries of
\* equal key the oldest stays.
C15_OldestOfEqualKeysStays ==
    [][AtOffer =>
         \A x \in EvictedByOffer :
             \A i \in 1..Len(OfferHeapAfter) :
                 OfferHeapAfter[i].key = x.key => OfferHeapAfter[i].seq <= x.seq]_vars

(* ------------------------------------------------------------------ *)
(* C16: the order of a drained heap                                    *)
(* ------------------------------------------------------------------ *)

\* l is ordered by key descending, entries of equal key by ascending
\* sequence number.
DrainOrdered(l) ==
    \A i, j \in 1..Len(l) :
        i < j => /\ ~KeyLess(l[i].key, l[j].key)
                 /\ l[i].key = l[j].key => l[i].seq <= l[j].seq

\* The heaps a finished run has drained.
DrainedHeaps ==
    IF cfg.mode = "flat"
    THEN {per_theme_heaps[t] : t \in DOMAIN per_theme_heaps}
    ELSE UNION {{per_theme_bin_heaps[t][b] : b \in BinsOf(t)} : t \in StratThemes}

\* C16: when a run has finished, the drain of every heap holds all its
\* entries by key descending, those of equal key by ascending sequence
\* number, and in flat selection a category's output is its heap's drain.
C16_DrainOrder ==
    pc = "done" =>
        /\ \A h \in DrainedHeaps :
              /\ EntryBag(sorted_desc(h)) = EntryBag(h)
              /\ DrainOrdered(sorted_desc(h))
        /\ cfg.mode = "flat" =>
              \A t \in DOMAIN per_theme_heaps :
                  LET out == SelectSeq(selected, LAMBDA s : s[1] = t)
                      lst == sorted_desc(per_theme_heaps[t])
                  IN  out = [k \in 1..Len(lst) |-> << t, lst[k].p >>]

(* ------------------------------------------------------------------ *)
(* C17: the bin index                                                  *)
(* ------------------------------------------------------------------ *)

\* floor(x / b) and ceil(x / b) for b >= 1, by their defining inequalities.
FloorOf(x, b) == CHOOSE q \in (-Abs(x) - 1)..(Abs(x) + 1) : q * b <= x /\ x < (q + 1) * b

CeilOf(x, b) == CHOOSE q \in (-Abs(x) - 1)..(Abs(x) + 1) : (q - 1) * b < x /\ x <= q * b

\* C17: for min <= max and binWidth >= 1, with numBins the larger of 1 and
\* ceil((max - min + 1) / binWidth), the engine's bin count is numBins and
\* the bin index lies in 0..numBins-1: 0 for a rating below min,
\* numBins - 1 for one above max, floor((rating - min) / binWidth) otherwise.
C17_BinIndex ==
    bin_ret # None =>
        LET a == bin_args[1]
            r == bin_ret[1]
            numBins == Max(1, CeilOf(a.max_rating - a.min_rating + 1, a.bin_size))
        IN  (a.min_rating <= a.max_rating /\ a.bin_size >= 1) =>
               /\ r.num_bins = numBins
               /\ r.bin_index \in 0..(numBins - 1)
               /\ r.bin_index =
                     IF a.rating < a.min_rating THEN 0
                     ELSE IF a.rating > a.max_rating THEN numBins - 1
                     ELSE FloorOf(a.rating - a.min_rating, a.bin_size)

\* A rating above a range of several bins has been put in the last one.
C17_Witness ==
    /\ bin_ret # None
    /\ bin_args[1].min_rating <= bin_args[1].max_rating
    /\ bin_args[1].bin_size >= 1
    /\ bin_args[1].rating > bin_args[1].max_rating
    /\ bin_ret[1].num_bins >= 3
    /\ bin_ret[1].bin_index = bin_ret[1].num_bins - 1

(* ------------------------------------------------------------------ *)
(* C18: the bins of the worked example                                 *)
(* ------------------------------------------------------------------ *)

\* The call evaluated was on the range 600..800, bin width 5, quota 4.
ScenarioEvaluated ==
    /\ bin_ret # None
    /\ \E r \in -2..801 : bin_args[1] = Scenario(r)

\* C18 as claimed: with range [600, 800], bin width 5 and quota 4 the
\* engine uses exactly 40 bins and a per-bin quota of 1.
C18_FortyBins ==
    ScenarioEvaluated => bin_ret[1].num_bins = 40 /\ bin_ret[1].per_bin_quota = 1

\* C18 as amended: with range [600, 800], bin width 5 and quota 4 the
\* engine uses exactly 41 bins, ceil(201 / 5), and a per-bin quota of 1.
C18_FortyOneBins ==
    ScenarioEvaluated => bin_ret[1].num_bins = 41 /\ bin_ret[1].per_bin_quota = 1

\* The worked example evaluated on rating 800, which lands in bin 40,
\* the forty-first.
C18_Witness ==
    /\ ScenarioEvaluated
    /\ bin_args[1].rating = 800
    /\ bin_ret[1].bin_index = 40

(* ------------------------------------------------------------------ *)
(* C19: a category ending short of N                                   *)
(* ------------------------------------------------------------------ *)

\* Bin b still holds a candidate of the colour (white or black).
Candidate(b, white) == Get(IF white THEN bin_white ELSE bin_black, b, << >>) # << >>

\* The situation the claim describes: picks are still owed, no bin holds
\* the desired colour, and every candidate left is of the other colour in
\* a bin the cursor has already passed.
Stranded ==
    /\ Stratified /\ pc = "pick" /\ count_for_theme < N
    /\ \A b \in 0..(num_bins - 1) : ~Candidate(b, desired_white)
    /\ \E b \in 0..(rr_start - 1) : Candidate(b, ~desired_white)
    /\ \A b \in rr_start..(num_bins - 1) : ~Candidate(b, ~desired_white)

\* C19 as claimed: a category whose only candidates left are of the
\* attribute opposite to the desired one, in bins the cursor has passed,
\* ends there with fewer than N records.
C19_EndsShortBehindCursor == Stranded => PickBin = -1

\* The balancer has left a category with fewer than N records.
EndedShort ==
    /\ Stratified /\ pc \in {"drain", "done"} /\ theme_idx > 1
    /\ count_for_theme < N

\* C19 as amended: the balancer never leaves a category with fewer than N
\* records while a candidate of either attribute remains in a bin of the
\* cursor's round 0..numBins-1; the second scan reaches the bins already
\* passed.
C19_NeverShortWithCandidates ==
    EndedShort =>
        \A b \in 0..(num_bins - 1) : ~Candidate(b, TRUE) /\ ~Candidate(b, FALSE)

\* A category of several bins left short after its last pick, a white one
\* following a white one, was taken from a bin the cursor had passed.
C19_Witness ==
    /\ EndedShort
    /\ num_bins > 1
    /\ black_count = 0
    /\ Len(selected) >= 2
    /\ selected[Len(selected)][1] = selected[Len(selected) - 1][1]
    /\ BinOf(selected[Len(selected)][2]) <= BinOf(selected[Len(selected) - 1][2])

(* ------------------------------------------------------------------ *)
(* C20: the desired attribute and the colour of each pick              *)
(* ------------------------------------------------------------------ *)

\* Some bin of the category holds a candidate of the desired colour.
HoldsDesired ==
    \E b \in DOMAIN (IF desired_white THEN bin_white ELSE bin_black) :
        Candidate(b, desired_white)

\* The step is a pick, and the pick is a white record.
PickStep == pc = "pick" /\ Len(selected') = Len(selected) + 1

PickedWhite == white_count' = white_count + 1

\* C20: the desired attribute is white when the picks of a category
\* start, and after every pick it is white exactly when countWhite <=
\* countBlack; a pick takes a record of the desired attribute whenever
\* some bin of the category holds one, and one of the other attribute
\* only when none does.
C20_DesiredAttribute ==
    [][/\ (pc = "drain" /\ pc' = "pick") => desired_white'
       /\ PickStep =>
             /\ desired_white' <=> (white_count' <= black_count')
             /\ HoldsDesired => (PickedWhite <=> desired_white)]_vars

(* ------------------------------------------------------------------ *)
(* C21: the bin and the record of each pick                            *)
(* ------------------------------------------------------------------ *)

\* The bins of the category being balanced, and a colour's list in one.
CategoryBins == DOMAIN bin_white

Bucket(b, white) == Get(IF white THEN bin_white ELSE bin_black, b, << >>)

\* The bin the category's previous pick came from.
LastBin == BinOf(selected[Len(selected)][2])

\* Bin b is the first of the round rr_start, rr_start + 1, ... (mod
\* numBins) that holds a candidate of the colour.
FirstFromCursor(b, white) ==
    \E i \in 0..(num_bins - 1) :
        /\ (rr_start + i) % num_bins = b
        /\ Candidate(b, white)
        /\ \A j \in 0..(i - 1) : ~Candidate((rr_start + j) % num_bins, white)

\* The head of a list has the highest key of the list.
HeadIsBest(lst) ==
    \A k \in 1..Len(lst) :
        ~KeyLess(goodness_key(Head(lst), cfg.difficulty_center),
                 goodness_key(lst[k], cfg.difficulty_center))

\* The step takes the head of bin b's list of the colour, in the way the
\* claim describes.
TakesFrom(b, white) ==
    /\ FirstFromCursor(b, white)
    /\ HeadIsBest(Bucket(b, white))
    /\ selected' = Append(selected, << BalTheme, Head(Bucket(b, white)) >>)
    /\ rr_start' = (b + 1) % num_bins
    /\ (count_for_theme > 0 /\ LastBin = b) =>
           \A o \in CategoryBins \ {b} : ~Candidate(o, white)

\* C21: each pick is taken from the first bin, in cyclic order from the
\* cursor, that holds a candidate of the attribute sought, and takes the
\* head (highest key) of that bin's list for the attribute; after a pick
\* from bin b the cursor is (b + 1) mod numBins, and a bin is picked
\* twice in a row only when no other bin of the category holds a
\* candidate of the attribute sought.
C21_PickOrder ==
    [][PickStep => \E b \in CategoryBins, white \in BOOLEAN : TakesFrom(b, white)]_vars

\* The same for the configurations the specification accepts.
C21_PickOrderValid ==
    [][(PickStep /\ ValidConfig(cfg)) =>
          \E b \in CategoryBins, white \in BOOLEAN : TakesFrom(b, white)]_vars

\* A valid run of several bins took two records in a row from one bin.
C21_ValidWitness ==
    /\ Stratified /\ pc = "pick" /\ ValidConfig(cfg) /\ num_bins > 1
    /\ count_for_theme >= 2
    /\ BinOf(selected[Len(selected)][2]) = BinOf(selected[Len(selected) - 1][2])

(* ------------------------------------------------------------------ *)
(* C22: records whose classification fails                             *)
(* ------------------------------------------------------------------ *)

\* starts_white(p) could not apply the first move of the record: push_uci
\* raised at line 324 and the exception was swallowed at line 325.
ClassificationFails(id) == cfg.present_after /\ Puzzle(id).first = "illegal"

\* The record the step emits.
Emitted == selected'[Len(selected')][2]

\* C22: a record whose classification fails (its first move cannot be
\* applied to its position) is left out of the balance accounting: when
\* it is emitted neither countWhite nor countBlack moves, and its failure
\* does not abort the category.
C22_FailedClassificationUncounted ==
    [][/\ (PickStep /\ ClassificationFails(Emitted)) =>
             (white_count' = white_count /\ black_count' = black_count)
       /\ (pc = "drain" /\ pc' = "failed") =>
             \E b \in DOMAIN BalBins : \E k \in 1..Len(BalBins[b]) :
                 ~ClassificationFails(BalBins[b][k].p)]_vars

(* ------------------------------------------------------------------ *)
(* C23: when the attribute classifier is invoked                       *)
(* ------------------------------------------------------------------ *)

\* The calls of starts_white made for a puzzle of a theme so far.
CallsOf(t, id) ==
    Cardinality({k \in 1..Len(starts_white_calls) : starts_white_calls[k] = << t, id >>})

\* The entries of a theme's bin heaps that hold the puzzle.
EntriesOf(t, id) ==
    Cardinality({s \in HeldSlots(t) : per_theme_bin_heaps[t][s[1]][s[2]].p = id})

\* The theme at position i of the dict has been split by colour: the
\* balancer is at its picks or past it.
Split(i) == i < theme_idx \/ (i = theme_idx /\ pc = "pick")

\* C23: in stratified selection the attribute classifier is never
\* invoked while records are offered to heaps; it is invoked only after
\* the pass has ended, exactly once per entry drained from a category's
\* bin heaps and before the category's first pick, and never again
\* during the picks.
C23_ClassifierCalls ==
    /\ pc \in {"setup", "pass"} => starts_white_calls = << >>
    /\ Stratified =>
         \A i \in 1..Len(theme_order) : \A id \in PuzzleIds :
             LET t == theme_order[i]
             IN  IF Split(i) THEN CallsOf(t, id) = EntriesOf(t, id)
                 ELSE IF pc = "failed" /\ i = theme_idx
                      THEN CallsOf(t, id) <= EntriesOf(t, id)
                      ELSE CallsOf(t, id) = 0

\* The balancer has picked from its second category, whose bin heaps hold
\* one puzzle in two entries, after classifying at least three entries.
C23_Witness ==
    /\ Stratified /\ pc = "pick" /\ theme_idx >= 2 /\ count_for_theme >= 1
    /\ Len(starts_white_calls) >= 3
    /\ \E id \in PuzzleIds : EntriesOf(BalTheme, id) = 2

(* ------------------------------------------------------------------ *)
(* C24: category memberships as a set                                  *)
(* ------------------------------------------------------------------ *)

\* The positions of a category's output that hold the puzzle.
OutputsOf(t, id) == {i \in OutPositions(t) : selected[i][2] = id}

\* C24: the category memberships of a record behave as a set: a record
\* whose theme list names a category more than once is offered to that
\* category's heap once, so with unique ids no record appears more than
\* once in a category's output, in flat and in stratified selection.
C24_NoRepeatInCategory ==
    \A t \in Themes : \A id \in PuzzleIds : Cardinality(OutputsOf(t, id)) <= 1

(* ------------------------------------------------------------------ *)
(* C25: the range of the jitter                                        *)
(* ------------------------------------------------------------------ *)

\* The jitter has been computed.
NoiseReturned == noise_ret # None

\* The jitter returned is at least -0.5 (jitter2 is the jitter times
\* 2 * DigestMax).
JitterAtLeastLow == noise_ret[1].jitter2 >= -DigestMax

\* The popularity term less the popularity, times 2 * DigestMax.
PopularityShift ==
    noise_ret[1].popularity_key - 2 * DigestMax * noise_args[1].popularity

\* C25: for every value of the unsigned digest prefix the jitter
\* satisfies -0.5 <= jitter < 0.5, the upper bound never attained, so the
\* popularity term exceeds the record's popularity by strictly less
\* than 5.
C25_JitterHalfOpen ==
    NoiseReturned =>
        /\ JitterAtLeastLow
        /\ noise_ret[1].jitter2 < DigestMax
        /\ PopularityShift < 5 * 2 * DigestMax

\* What holds on every digest prefix: -0.5 <= jitter <= 0.5, the
\* popularity term within 5 of the popularity, and the upper end reached
\* by the greatest prefix alone.
C25_JitterClosed ==
    NoiseReturned =>
        /\ JitterAtLeastLow
        /\ noise_ret[1].jitter2 <= DigestMax
        /\ Abs(PopularityShift) <= 5 * 2 * DigestMax
        /\ noise_ret[1].jitter2 = DigestMax <=> noise_args[1].val = DigestMax

====
